---- MODULE Spec2Model ----
(***************************************************************************)
(* Ranking pipeline of backend/main.py: user_search and                    *)
(* recommendations_for_you (retrieval, constraint filter, apply_mmr,       *)
(* rerank, result assembly).                                               *)
(*                                                                         *)
(* Scores are integers in thousandths: semantic_score 0.9 is 900, and      *)
(* 1000*final_score = 1000*semantic_score + 100*rate + review_count.       *)
(* Candidate dictionaries are objects of `heap`; every candidate list is   *)
(* a sequence of references (indices into heap), as Python lists hold      *)
(* references to the same dict objects.                                    *)
(***************************************************************************)
EXTENDS Integers, Sequences, FiniteSets, TLC

VARIABLES
    endpoint,           \* "search" (user_search) or "foryou" (recommendations_for_you)
    request,            \* the request / user context
    has_qdrant,         \* module-level flag set at import
    qdrant_fail,        \* the vector-index calls that raise in this invocation
    mongo,              \* "ok", "none" (collections are None), "down" (calls raise),
                        \* "flaky" (find_one raises for one id only)
    has_keywords,       \* the query contains at least one \w+ token
    keyword_pts,        \* what the text_sparse query returns
    dense_pts,          \* what the combined_vector query returns
    scroll_pts,         \* what client.scroll returns
    products,           \* documents of products_collection
    pc,                 \* position of the handler
    heap,               \* candidate dicts, by object identity
    candidates,         \* local `candidates` (rebound by each filter)
    search_results,     \* the points of the supplier call that was used
    retrieved,          \* `candidates` as it left the retrieval step
    source,             \* the retrieval source that produced `retrieved`
    filtered_budget,    \* local filtered_budget
    after_budget,       \* `candidates` after the budget rebinding
    filtered_prefs,     \* local filtered_prefs
    after_prefs,        \* `candidates` after the preferences rebinding
    filtered_payment,   \* local filtered_payment
    mmr_input,          \* the list handed to apply_mmr
    mmr_k,              \* the k handed to apply_mmr
    mmr_results,        \* local mmr_results
    reranked_results,   \* local reranked_results
    ranked,             \* sorted(base_list, ...) before the [:top_k] slice
    final_results,      \* local final_results
    recommendations,    \* local recommendations
    exc,                \* the exception caught by the handler's except block
    response,           \* the returned JSON body
    lambda_param,       \* apply_mmr: parameter lambda_param, in thousandths
    mmr_selected,       \* apply_mmr: local selected
    mmr_remaining,      \* apply_mmr: local remaining
    shared_heap,        \* dicts of all invocations in flight in one process
    invocations,        \* the locals of each invocation in flight
    issued              \* the retrieval calls made so far, in order

vars == <<endpoint, request, has_qdrant, qdrant_fail, mongo, has_keywords,
          keyword_pts, dense_pts, scroll_pts, products, pc, heap, candidates,
          search_results, retrieved, source, filtered_budget, after_budget, filtered_prefs,
          after_prefs, filtered_payment, mmr_input, mmr_k, mmr_results,
          reranked_results, ranked, final_results, recommendations, exc,
          response, lambda_param, mmr_selected, mmr_remaining, shared_heap,
          invocations, issued>>

\* the locals of a stepwise apply_mmr call
mmr_locals == <<lambda_param, mmr_selected, mmr_remaining>>

\* the state of several invocations in flight
conc_vars == <<shared_heap, invocations>>

----------------------------------------------------------------------------
(* Bounds of the model *)

MaxN == 3          \* most points one supplier call returns
MaxTopK == 2       \* largest request.top_k

(* Program constants *)

LambdaParam == 700          \* lambda_param=0.7, in thousandths
RateWeight == 100           \* 0.1 * rate, in thousandths
ReviewWeight == 1           \* 0.001 * review_count, in thousandths
NoScore == -1               \* the dict has no "final_score" key
Inf == 1000000              \* float('inf')

----------------------------------------------------------------------------
(* Generic helpers *)

Min(a, b) == IF a <= b THEN a ELSE b

SeqsUpTo(S, n) == UNION {[1..m -> S] : m \in 0..n}

Range(s) == {s[i] : i \in 1..Len(s)}

Prefix(s, n) == SubSeq(s, 1, Min(n, Len(s)))

\* supplier results come ordered by descending score
SortedByScore(s) == \A i \in 1..Len(s) : \A j \in i..Len(s) : s[i].score >= s[j].score

----------------------------------------------------------------------------
(* Candidate construction (the dict literals of the retrieval step) *)

\* candidates.append({...}) for a ranked hit: semantic_score = float(res.score)
CandidateOf(p) ==
    [product_id |-> p.product_id, semantic_score |-> p.score, rate |-> p.rate,
     review_count |-> p.review_count, price |-> p.price, category |-> p.category,
     brand |-> p.brand, material |-> p.material,
     payment_methods |-> p.payment_methods, final_score |-> NoScore]

\* the point's own score kept for a scroll point or a document
UnrankedCandidateOf_KeepsScore(p) == CandidateOf(p)

\* candidates.append({...}) for a scroll point or a document: semantic_score = 0.0
UnrankedCandidateOf(p) == [CandidateOf(p) EXCEPT !.semantic_score = 0]

\* the dict of recommendations_for_you carries no payment_methods key
ForYouCandidateOf(p) == [CandidateOf(p) EXCEPT !.payment_methods = {}]

Refs(h) == [i \in 1..Len(h) |-> i]

----------------------------------------------------------------------------
(* Constraint filter of user_search *)

MinBudget(req) == IF "min" \in req.budgetKeys THEN req.budgetMin ELSE 0
\* a missing "max" read as 0 instead of float('inf')
MaxBudget_ZeroDefault(req) == IF "max" \in req.budgetKeys THEN req.budgetMax ELSE 0

MaxBudget(req) == IF "max" \in req.budgetKeys THEN req.budgetMax ELSE Inf

BudgetOk(c, req) == MinBudget(req) <= c.price /\ c.price <= MaxBudget(req)

\* filtered_budget: [] unless request.budgetRange is a non-empty dict
FilterBudget(cands, req, h) ==
    IF req.budgetKeys # {}
    THEN SelectSeq(cands, LAMBDA r : BudgetOk(h[r], req))
    ELSE << >>

\* r["brand"] not in brands, without the test that r["brand"] is non-empty
PrefsOk_StrictBrand(c, req) ==
    /\ ~(req.categories # {} /\ c.category \notin req.categories)
    /\ ~(req.brands # {} /\ c.brand \notin req.brands)
    /\ ~(req.materials # {} /\ c.material # "" /\ c.material \notin req.materials)

\* the body of the preferences loop
PrefsOk(c, req) ==
    /\ ~(req.categories # {} /\ c.category \notin req.categories)
    /\ ~(req.brands # {} /\ c.brand # "" /\ c.brand \notin req.brands)
    /\ ~(req.materials # {} /\ c.material # "" /\ c.material \notin req.materials)

FilterPrefs(cands, req, h) == SelectSeq(cands, LAMBDA r : PrefsOk(h[r], req))

PaymentOk(c, req) == req.preferredPaymentMethod \in c.payment_methods

FilterPayment(cands, req, h) ==
    IF req.preferredPaymentMethod # ""
    THEN SelectSeq(cands, LAMBDA r : PaymentOk(h[r], req))
    ELSE << >>

\* the relaxation dropped: candidates = filtered
Relax_NoFallback(filtered, cands) == filtered

\* the relaxation inverted: candidates = candidates if filtered else filtered
Relax_Inverted(filtered, cands) == IF filtered # << >> THEN cands ELSE filtered

\* candidates = filtered if filtered else candidates
Relax(filtered, cands) == IF filtered # << >> THEN filtered ELSE cands

----------------------------------------------------------------------------
(* Filter of recommendations_for_you: hard budget and payment predicates *)

\* the category test skipping the point as the other two tests do
ForYouOk_CategoryHard(p, req) ==
    /\ MinBudget(req) <= p.price /\ p.price <= MaxBudget(req)
    /\ ~(/\ p.payment_methods # {}
         /\ req.preferredPaymentMethod # ""
         /\ req.preferredPaymentMethod \notin p.payment_methods)
    /\ ~(req.categories # {} /\ p.category \notin req.categories)

ForYouOk(p, req) ==
    /\ MinBudget(req) <= p.price /\ p.price <= MaxBudget(req)
    /\ ~(/\ p.payment_methods # {}
         /\ req.preferredPaymentMethod # ""
         /\ req.preferredPaymentMethod \notin p.payment_methods)

----------------------------------------------------------------------------
(* apply_mmr *)

\* the number of selected items with the same category
AvgDiversity_SameCategory(c, selected, h) ==
    Cardinality({i \in 1..Len(selected) : h[selected[i]].category = h[c].category})

\* for selected_item in selected: if categories differ: avg_diversity += 1
AvgDiversity(c, selected, h) ==
    Cardinality({i \in 1..Len(selected) : h[selected[i]].category # h[c].category})

\* the default weight whatever lambda_param was passed
MmrScore_FixedLambda(c, selected, lambda, h) ==
    LambdaParam * h[c].final_score * Len(selected)
        - (1000 - LambdaParam) * 1000 * AvgDiversity(c, selected, h)

\* mmr_score = lambda*relevance - (1-lambda)*avg_diversity/len(selected),
\* multiplied by 10^6 * len(selected), which is the same for the whole step
MmrScore(c, selected, lambda, h) ==
    lambda * h[c].final_score * Len(selected)
        - (1000 - lambda) * 1000 * AvgDiversity(c, selected, h)

\* the last maximal element instead of the first
BestIndex_Last(remaining, selected, lambda, h) ==
    CHOOSE i \in 1..Len(remaining) :
        /\ \A j \in 1..Len(remaining) :
               MmrScore(remaining[i], selected, lambda, h)
                   >= MmrScore(remaining[j], selected, lambda, h)
        /\ \A j \in (i + 1)..Len(remaining) :
               MmrScore(remaining[j], selected, lambda, h)
                   < MmrScore(remaining[i], selected, lambda, h)

\* max(scores, key=...) returns the first maximal element
BestIndex(remaining, selected, lambda, h) ==
    CHOOSE i \in 1..Len(remaining) :
        /\ \A j \in 1..Len(remaining) :
               MmrScore(remaining[i], selected, lambda, h)
                   >= MmrScore(remaining[j], selected, lambda, h)
        /\ \A j \in 1..(i - 1) :
               MmrScore(remaining[j], selected, lambda, h)
                   < MmrScore(remaining[i], selected, lambda, h)

\* list.remove(x): drops the first element equal to x (dicts compare by content)
RemoveFirstEqual(remaining, best, h) ==
    LET j == CHOOSE j \in 1..Len(remaining) :
                 /\ h[remaining[j]] = h[best]
                 /\ \A m \in 1..(j - 1) : h[remaining[m]] # h[best]
    IN  SubSeq(remaining, 1, j - 1) \o SubSeq(remaining, j + 1, Len(remaining))

\* the while loop; candidate["final_score"] raises KeyError when the key is absent
RECURSIVE MmrLoop(_, _, _, _, _)
MmrLoop(selected, remaining, lambda, k, h) ==
    IF Len(selected) < k /\ remaining # << >>
    THEN IF \E i \in 1..Len(remaining) : h[remaining[i]].final_score = NoScore
         THEN [raised |-> TRUE, value |-> << >>]
         ELSE LET best == remaining[BestIndex(remaining, selected, lambda, h)]
              IN  MmrLoop(Append(selected, best),
                          RemoveFirstEqual(remaining, best, h), lambda, k, h)
    ELSE [raised |-> FALSE, value |-> selected]

\* the seed taken from the wrong end: selected.append(remaining.pop())
apply_mmr_LastSeed(results, lambda, k, h) ==
    IF results = << >>
    THEN [raised |-> FALSE, value |-> results]
    ELSE [raised |-> FALSE,
          value |-> [i \in 1..Len(results) |-> results[Len(results) + 1 - i]]]

apply_mmr(results, lambda, k, h) ==
    IF Len(results) <= k
    THEN [raised |-> FALSE, value |-> results]
    ELSE MmrLoop(<<results[1]>>, Tail(results), lambda, k, h)

----------------------------------------------------------------------------
(* Reranking and sorting *)

\* the weights exchanged: 0.001*rate + 0.1*review_count
FinalScore_SwappedWeights(c) ==
    c.semantic_score + ReviewWeight * c.rate + RateWeight * c.review_count

\* semantic_score + 0.1*rate + 0.001*review_count
FinalScore(c) == c.semantic_score + RateWeight * c.rate + ReviewWeight * c.review_count

\* the weighted terms added to the score already stored on the dict
Rescore_Accumulating(h, src) ==
    [o \in DOMAIN h |->
        IF o \in Range(src)
        THEN [h[o] EXCEPT !.final_score =
                 IF h[o].final_score = NoScore THEN FinalScore(h[o])
                 ELSE h[o].final_score + RateWeight * h[o].rate
                          + ReviewWeight * h[o].review_count]
        ELSE h[o]]

\* result["final_score"] = final_score, on the dict object itself
Rescore(h, src) ==
    [o \in DOMAIN h |->
        IF o \in Range(src) THEN [h[o] EXCEPT !.final_score = FinalScore(h[o])]
        ELSE h[o]]

\* x.get("final_score", 0.0)
SortKey(h, o) == IF h[o].final_score = NoScore THEN 0 ELSE h[o].final_score

\* an unstable sort: an element goes before its equals
RECURSIVE InsertDesc_Unstable(_, _, _)
InsertDesc_Unstable(s, o, h) ==
    IF s = << >> THEN <<o>>
    ELSE IF SortKey(h, Head(s)) > SortKey(h, o)
         THEN <<Head(s)>> \o InsertDesc_Unstable(Tail(s), o, h)
         ELSE <<o>> \o s

\* sorted(..., reverse=True) is stable: an element goes after its equals
RECURSIVE InsertDesc(_, _, _)
InsertDesc(s, o, h) ==
    IF s = << >> THEN <<o>>
    ELSE IF SortKey(h, Head(s)) >= SortKey(h, o)
         THEN <<Head(s)>> \o InsertDesc(Tail(s), o, h)
         ELSE <<o>> \o s

RECURSIVE SortedDesc(_, _)
SortedDesc(s, h) ==
    IF s = << >> THEN << >>
    ELSE InsertDesc(SortedDesc(SubSeq(s, 1, Len(s) - 1), h), s[Len(s)], h)

----------------------------------------------------------------------------
(* Result assembly *)

\* the id whose lookup times out when the document store is flaky
FlakyId == "p2"

\* products_collection.find_one({"id": product_id}) raises
LookupRaises(mg, id) == mg = "down" \/ (mg = "flaky" /\ id = FlakyId)

\* products_collection.find_one({"id": product_id}) found a document
Resolves(id, docs) == \E i \in 1..Len(docs) : docs[i].product_id = id

\* "score": result.get("final_score", 0)
RecommendationOf(c) ==
    [id |-> c.product_id,
     score |-> IF c.final_score = NoScore THEN 0 ELSE c.final_score]

\* the `if mongo_product:` test dropped: every non-empty id is emitted
RECURSIVE AssembleLoop_NoLookupTest(_, _, _, _)
AssembleLoop_NoLookupTest(results, docs, configured, h) ==
    IF results = << >> THEN << >>
    ELSE LET c == h[Head(results)]
             rest == AssembleLoop_NoLookupTest(Tail(results), docs, configured, h)
         IN  IF c.product_id = "" THEN rest
             ELSE <<RecommendationOf(c)>> \o rest

\* the assembly loop over final_results
RECURSIVE AssembleLoop(_, _, _, _)
AssembleLoop(results, docs, configured, h) ==
    IF results = << >> THEN << >>
    ELSE LET c == h[Head(results)]
             rest == AssembleLoop(Tail(results), docs, configured, h)
         IN  IF c.product_id = "" THEN rest
             ELSE IF configured /\ Resolves(c.product_id, docs)
                  THEN <<RecommendationOf(c)>> \o rest
                  ELSE rest

----------------------------------------------------------------------------
(* Inputs: what the vector index and the document store hold, and requests *)

Endpoints == {"search", "foryou"}

Pt(id, score, rate, reviews, price, category, brand, material, methods) ==
    [product_id |-> id, score |-> score, rate |-> rate, review_count |-> reviews,
     price |-> price, category |-> category, brand |-> brand,
     material |-> material, payment_methods |-> methods, availability |-> TRUE]

Req(keys, lo, hi, categories, brands, materials, method, k) ==
    [budgetKeys |-> keys, budgetMin |-> lo, budgetMax |-> hi,
     categories |-> categories, brands |-> brands, materials |-> materials,
     preferredPaymentMethod |-> method, top_k |-> k]

\* points that differ in what the budget, category and payment predicates read
FilterPoints ==
    {Pt("p1", 500, 0, 0, price, category, "", "", methods) :
        price \in {10, 50}, category \in {"A", "B"}, methods \in {{}, {"card"}}}

FilterRequests ==
    {Req(b[1], b[2], b[3], categories, {}, {}, method, MaxTopK) :
        b \in {<<{}, 0, 0>>, <<{"min", "max"}, 0, 0>>, <<{"min", "max"}, 0, 20>>},
        categories \in {{}, {"A"}},
        method \in {"", "card"}}

\* points that differ in what the preferences predicate reads
PrefPoints ==
    {Pt("p1", 500, 0, 0, 10, category, brand, material, {}) :
        category \in {"", "A", "B"}, brand \in {"", "x"}, material \in {"", "w"}}

PrefRequests ==
    {Req({}, 0, 0, categories, brands, materials, "", MaxTopK) :
        categories \in {{}, {"A"}},
        brands \in {{}, {"x"}, {"y"}},
        materials \in {{}, {"w"}}}

\* points that differ in what the reranker reads; 400+0.1*5 = 900+0 is a tie
RankPoints ==
    {Pt("p1", score, rate, reviews, 10, "A", "", "", {}) :
        score \in {400, 900}, rate \in {0, 5}, reviews \in {0, 500}}

\* points that differ in what the assembler reads
AsmPoints ==
    {Pt(id, 500, rate, 0, 10, "A", "", "", {}) :
        id \in {"", "p1", "p2", "p3"}, rate \in {0, 5}}

\* payloads are indexed with an "availability" flag; p2 is out of stock
AvailPoints ==
    {[Pt(id, 500, 0, 0, 10, "A", "", "", {}) EXCEPT !.availability = (id = "p1")] :
        id \in {"p1", "p2"}}

\* points that differ in price and brand, told apart by their ids
CtxPoints ==
    {Pt("p1", 500, 0, 0, 10, "A", "", "", {}), Pt("p2", 500, 0, 0, 50, "A", "x", "", {}),
     Pt("p3", 500, 0, 0, 50, "A", "", "", {})}

\* budgets with a missing or negative bound, preference values no point has
CtxRequests ==
    {Req(b[1], b[2], b[3], p[1], p[2], {}, "", k) :
        b \in {<<{"max"}, 0, 20>>, <<{"min"}, 20, 0>>, <<{"min", "max"}, -5, 20>>,
               <<{"min", "max"}, 30, -5>>, <<{"max"}, 0, -1>>},
        p \in {<<{}, {}>>, <<{"C"}, {"x"}>>, <<{}, {"z"}>>},
        k \in {1, MaxTopK}}

\* points that differ in what the filter of recommendations_for_you reads
ForYouPoints ==
    {Pt("p1", 500, 0, 0, price, "A", "", "", methods) :
        price \in {10, 50}, methods \in {{}, {"card"}, {"cash"}}}

\* stored users: a budget, with and without a preferred payment method
ForYouRequests ==
    {Req({"min", "max"}, 0, 20, {}, {}, {}, method, MaxTopK) : method \in {"", "card"}}

TopKs == 0..MaxTopK

PlainRequests == {Req({}, 0, 0, {}, {}, {}, "", k) : k \in TopKs}

Doc(id) == Pt(id, 0, 3, 7, 10, "A", "", "", {})

AllDocs == <<Doc("p1"), Doc("p2"), Doc("p3")>>

Repositories == {<< >>, <<Doc("p1")>>, <<Doc("p2"), Doc("p3")>>, AllDocs}

RankedHits(S) == {s \in SeqsUpTo(S, MaxN) : SortedByScore(s)}

OneHit == {<< >>, <<Pt("p1", 900, 5, 0, 10, "A", "", "", {"card"})>>}

\* the state of one invocation before its first statement
Scenario(ep, req, hq, qf, mg, hk, kp, dp, sp, docs) ==
    /\ endpoint = ep
    /\ request = req
    /\ has_qdrant = hq
    /\ qdrant_fail = qf
    /\ mongo = mg
    /\ has_keywords = hk
    /\ keyword_pts = kp
    /\ dense_pts = dp
    /\ scroll_pts = sp
    /\ products = docs
    /\ pc = "start"
    /\ heap = << >>
    /\ candidates = << >>
    /\ search_results = << >>
    /\ retrieved = << >>
    /\ source = "none"
    /\ filtered_budget = << >>
    /\ after_budget = << >>
    /\ filtered_prefs = << >>
    /\ after_prefs = << >>
    /\ filtered_payment = << >>
    /\ mmr_input = << >>
    /\ mmr_k = 0
    /\ mmr_results = << >>
    /\ reranked_results = << >>
    /\ ranked = << >>
    /\ final_results = << >>
    /\ recommendations = << >>
    /\ exc = ""
    /\ lambda_param = LambdaParam
    /\ mmr_selected = << >>
    /\ mmr_remaining = << >>
    /\ shared_heap = << >>
    /\ invocations = << >>
    /\ issued = << >>
    /\ response = [error |-> "", recommendations |-> << >>,
                   personalization_applied |->
                      [availability_filtered |-> FALSE, hybrid_search_applied |-> FALSE,
                       budget_filtered |-> FALSE, category_filtered |-> FALSE,
                       brand_filtered |-> FALSE, material_filtered |-> FALSE,
                       payment_method_matched |-> FALSE]]

\* all services up; the hits come from the first query the endpoint issues
Served(ep, req, hits, docs, mg) ==
    Scenario(ep, req, TRUE, {}, mg, TRUE,
             IF ep = "search" THEN hits ELSE << >>,
             IF ep = "foryou" THEN hits ELSE << >>,
             << >>, docs)

Init ==
    \/ \E ep \in Endpoints, req \in FilterRequests, hits \in RankedHits(FilterPoints) :
           Served(ep, req, hits, AllDocs, "ok")
    \/ \E ep \in Endpoints, req \in PrefRequests, hits \in RankedHits(PrefPoints) :
           Served(ep, req, hits, AllDocs, "ok")
    \/ \E ep \in Endpoints, req \in PlainRequests, hits \in RankedHits(RankPoints) :
           Served(ep, req, hits, AllDocs, "ok")
    \/ \E ep \in Endpoints, req \in PlainRequests, hits \in RankedHits(AsmPoints),
          docs \in Repositories, mg \in {"ok", "none", "down", "flaky"} :
           Served(ep, req, hits, docs, mg)
    \/ \E req \in ForYouRequests, hits \in RankedHits(ForYouPoints) :
           Served("foryou", req, hits, AllDocs, "ok")
    \/ \E req \in CtxRequests, hits \in RankedHits(CtxPoints) :
           Served("search", req, hits, AllDocs, "ok")
    \/ \E ep \in Endpoints, req \in PlainRequests, hits \in RankedHits(AvailPoints) :
           Served(ep, req, hits, AllDocs, "ok")
    \/ \E ep \in Endpoints, hq \in BOOLEAN, qf \in SUBSET {"keyword", "dense", "scroll"},
          mg \in {"ok", "none", "down"}, hk \in BOOLEAN,
          kp \in OneHit, dp \in OneHit, sp \in OneHit, docs \in {<< >>, <<Doc("p1")>>} :
           Scenario(ep, Req({}, 0, 0, {}, {}, {}, "", 1), hq, qf, mg, hk, kp, dp, sp, docs)

----------------------------------------------------------------------------
(* Responses *)

NoFlags ==
    [availability_filtered |-> FALSE, hybrid_search_applied |-> FALSE,
     budget_filtered |-> FALSE, category_filtered |-> FALSE,
     brand_filtered |-> FALSE, material_filtered |-> FALSE,
     payment_method_matched |-> FALSE]

\* the body returned by the early return and by the except block
ErrorResponse(msg) ==
    [error |-> msg, recommendations |-> << >>, personalization_applied |-> NoFlags]

\* an empty result reported as a failure
SearchResponse_EmptyIsError(recs, req) ==
    IF recs = << >> THEN ErrorResponse("No results")
    ELSE [error |-> "", recommendations |-> recs, personalization_applied |-> NoFlags]

\* the body returned by user_search after assembly; "" stands for no error key
SearchResponse(recs, req) ==
    [error |-> "", recommendations |-> recs,
     personalization_applied |->
        [availability_filtered |-> TRUE, hybrid_search_applied |-> TRUE,
         budget_filtered |-> req.budgetKeys # {},
         category_filtered |-> req.categories # {},
         brand_filtered |-> req.brands # {},
         material_filtered |-> req.materials # {},
         payment_method_matched |-> req.preferredPaymentMethod # ""]]

\* the body returned by recommendations_for_you: recommendations[:top_k], no flags
ForYouResponse(recs, req) ==
    [error |-> "", recommendations |-> Prefix(recs, req.top_k),
     personalization_applied |-> NoFlags]

----------------------------------------------------------------------------
(* Retrieval chain of user_search: keyword, dense, scroll, document store *)

KeywordHits ==
    IF has_keywords /\ "keyword" \notin qdrant_fail THEN keyword_pts ELSE << >>

ScrollHits == IF "scroll" \in qdrant_fail THEN << >> ELSE scroll_pts

\* the calls user_search makes to fill `candidates`, in order
IssuedCalls ==
    LET first == IF has_keywords THEN <<"keyword">> ELSE << >>
        last == IF ScrollHits # << >> \/ mongo = "none" THEN << >> ELSE <<"mongo">>
    IN  IF KeywordHits # << >> THEN first
        ELSE IF "dense" \in qdrant_fail \/ dense_pts # << >> THEN first \o <<"dense">>
        ELSE first \o <<"dense", "scroll">> \o last

\* [raised, src, pts]: which source fills `candidates`, or the call that raises
RetrieveOutcome ==
    IF KeywordHits # << >> THEN [raised |-> FALSE, src |-> "keyword", pts |-> KeywordHits]
    ELSE IF "dense" \in qdrant_fail THEN [raised |-> TRUE, src |-> "dense", pts |-> << >>]
    ELSE IF dense_pts # << >> THEN [raised |-> FALSE, src |-> "dense", pts |-> dense_pts]
    ELSE IF ScrollHits # << >> THEN [raised |-> FALSE, src |-> "scroll", pts |-> ScrollHits]
    ELSE IF mongo = "none" THEN [raised |-> FALSE, src |-> "none", pts |-> << >>]
    ELSE IF mongo = "down" THEN [raised |-> TRUE, src |-> "mongo", pts |-> << >>]
    ELSE [raised |-> FALSE, src |-> IF products = << >> THEN "none" ELSE "mongo",
          pts |-> products]

----------------------------------------------------------------------------
(* Actions *)

\* if not has_qdrant [or users_collection is None]: return {"error": ...}
Unavailable ==
    /\ pc = "start"
    /\ ~has_qdrant \/ (endpoint = "foryou" /\ mongo = "none")
    /\ response' = ErrorResponse(IF endpoint = "search"
                                 THEN "Search service not available"
                                 ELSE "Service not available")
    /\ pc' = "RETURNED"
    /\ UNCHANGED <<issued, conc_vars, mmr_locals, endpoint, request, has_qdrant, qdrant_fail, mongo, has_keywords,
                   keyword_pts, dense_pts, scroll_pts, products, heap, candidates,
                   search_results, retrieved, source, filtered_budget, after_budget,
                   filtered_prefs, after_prefs, filtered_payment, mmr_input, mmr_k,
                   mmr_results, reranked_results, ranked, final_results,
                   recommendations, exc>>

\* user_search, retrieval
RetrieveSearch ==
    /\ pc = "start"
    /\ endpoint = "search"
    /\ has_qdrant
    /\ LET out == RetrieveOutcome
           h == [i \in 1..Len(out.pts) |->
                    IF out.src \in {"keyword", "dense"} THEN CandidateOf(out.pts[i])
                    ELSE UnrankedCandidateOf(out.pts[i])]
       IN  /\ source' = out.src
           /\ search_results' = out.pts
           /\ heap' = h
           /\ candidates' = Refs(h)
           /\ retrieved' = Refs(h)
           /\ pc' = IF out.raised THEN "EXCEPT" ELSE "RETRIEVED"
           /\ exc' = IF out.raised THEN "retrieval" ELSE exc
           /\ issued' = IssuedCalls
    /\ UNCHANGED <<conc_vars, mmr_locals, endpoint, request, has_qdrant, qdrant_fail, mongo, has_keywords,
                   keyword_pts, dense_pts, scroll_pts, products, filtered_budget,
                   after_budget, filtered_prefs, after_prefs, filtered_payment,
                   mmr_input, mmr_k, mmr_results, reranked_results, ranked,
                   final_results, recommendations, response>>

\* recommendations_for_you, steps 1 to 4: user lookup, upsert (guarded), search
RetrieveForYou ==
    /\ pc = "start"
    /\ endpoint = "foryou"
    /\ has_qdrant
    /\ mongo # "none"
    /\ LET raised == mongo = "down" \/ "dense" \in qdrant_fail
       IN  /\ source' = "dense"
           /\ search_results' = IF raised THEN << >> ELSE dense_pts
           /\ pc' = IF raised THEN "EXCEPT" ELSE "RETRIEVED"
           /\ exc' = IF raised THEN "retrieval" ELSE exc
           /\ issued' = IF mongo = "down" THEN << >> ELSE <<"dense">>
    /\ UNCHANGED <<conc_vars, mmr_locals, endpoint, request, has_qdrant, qdrant_fail, mongo, has_keywords,
                   keyword_pts, dense_pts, scroll_pts, products, heap, candidates,
                   retrieved, filtered_budget, after_budget, filtered_prefs,
                   after_prefs, filtered_payment, mmr_input, mmr_k, mmr_results,
                   reranked_results, ranked, final_results, recommendations,
                   response>>

\* user_search: budget, preferences and payment filters, each with relaxation
FilterSearch ==
    /\ pc = "RETRIEVED"
    /\ endpoint = "search"
    /\ LET fb == FilterBudget(candidates, request, heap)
           ab == Relax(fb, candidates)
           fp == FilterPrefs(ab, request, heap)
           ap == Relax(fp, ab)
           fm == FilterPayment(ap, request, heap)
       IN  /\ filtered_budget' = fb
           /\ after_budget' = ab
           /\ filtered_prefs' = fp
           /\ after_prefs' = ap
           /\ filtered_payment' = fm
           /\ candidates' = Relax(fm, ap)
    /\ pc' = "FILTERED"
    /\ UNCHANGED <<issued, conc_vars, mmr_locals, endpoint, request, has_qdrant, qdrant_fail, mongo, has_keywords,
                   keyword_pts, dense_pts, scroll_pts, products, heap,
                   search_results, retrieved, source, mmr_input, mmr_k, mmr_results,
                   reranked_results, ranked, final_results, recommendations, exc,
                   response>>

\* recommendations_for_you: the filtering loop that builds filtered_results
FilterForYou ==
    /\ pc = "RETRIEVED"
    /\ endpoint = "foryou"
    /\ LET passing == SelectSeq(search_results, LAMBDA p : ForYouOk(p, request))
           h == [i \in 1..Len(passing) |-> ForYouCandidateOf(passing[i])]
       IN  /\ heap' = h
           /\ candidates' = Refs(h)
    /\ pc' = "FILTERED"
    /\ UNCHANGED <<issued, conc_vars, mmr_locals, endpoint, request, has_qdrant, qdrant_fail, mongo, has_keywords,
                   keyword_pts, dense_pts, scroll_pts, products, search_results,
                   retrieved, source, filtered_budget, after_budget, filtered_prefs,
                   after_prefs, filtered_payment, mmr_input, mmr_k, mmr_results,
                   reranked_results, ranked, final_results, recommendations, exc,
                   response>>

\* mmr_results = apply_mmr(mmr_input, 0.7, min(top_k*2, len(mmr_input))) if mmr_input else []
Diversify ==
    /\ pc = "FILTERED"
    /\ LET k == Min(request.top_k * 2, Len(candidates))
           r == IF candidates # << >>
                THEN apply_mmr(candidates, LambdaParam, k, heap)
                ELSE [raised |-> FALSE, value |-> << >>]
       IN  /\ mmr_input' = candidates
           /\ mmr_k' = k
           /\ mmr_results' = r.value
           /\ pc' = IF r.raised THEN "EXCEPT" ELSE "DIVERSIFIED"
           /\ exc' = IF r.raised THEN "final_score" ELSE exc
    /\ UNCHANGED <<issued, conc_vars, mmr_locals, endpoint, request, has_qdrant, qdrant_fail, mongo, has_keywords,
                   keyword_pts, dense_pts, scroll_pts, products, heap, candidates,
                   search_results, retrieved, source, filtered_budget, after_budget,
                   filtered_prefs, after_prefs, filtered_payment, reranked_results,
                   ranked, final_results, recommendations, response>>

\* the scoring loop, then sorted(...)[:request.top_k]
Rerank ==
    /\ pc = "DIVERSIFIED"
    /\ LET src == IF endpoint = "search" /\ mmr_results = << >>
                  THEN candidates ELSE mmr_results
           h == Rescore(heap, src)
           base_list == IF endpoint = "search" /\ src = << >> THEN candidates ELSE src
           srt == SortedDesc(base_list, h)
       IN  /\ heap' = h
           /\ reranked_results' = src
           /\ ranked' = srt
           /\ final_results' = Prefix(srt, request.top_k)
    /\ pc' = "RERANKED"
    /\ UNCHANGED <<issued, conc_vars, mmr_locals, endpoint, request, has_qdrant, qdrant_fail, mongo, has_keywords,
                   keyword_pts, dense_pts, scroll_pts, products, candidates,
                   search_results, retrieved, source, filtered_budget, after_budget,
                   filtered_prefs, after_prefs, filtered_payment, mmr_input, mmr_k,
                   mmr_results, recommendations, exc, response>>

\* the lookup loop; find_one raises when the document store is unreachable
Assemble ==
    /\ pc = "RERANKED"
    /\ LET raised == \E i \in 1..Len(final_results) :
                         /\ heap[final_results[i]].product_id # ""
                         /\ LookupRaises(mongo, heap[final_results[i]].product_id)
       IN  /\ recommendations' =
                 IF raised THEN << >>
                 ELSE AssembleLoop(final_results, products, mongo \in {"ok", "flaky"},
                                   heap)
           /\ pc' = IF raised THEN "EXCEPT" ELSE "ASSEMBLED"
           /\ exc' = IF raised THEN "lookup" ELSE exc
    /\ UNCHANGED <<issued, conc_vars, mmr_locals, endpoint, request, has_qdrant, qdrant_fail, mongo, has_keywords,
                   keyword_pts, dense_pts, scroll_pts, products, heap, candidates,
                   search_results, retrieved, source, filtered_budget, after_budget,
                   filtered_prefs, after_prefs, filtered_payment, mmr_input, mmr_k,
                   mmr_results, reranked_results, ranked, final_results, response>>

\* the final return of either endpoint
Respond ==
    /\ pc = "ASSEMBLED"
    /\ response' = IF endpoint = "search"
                   THEN SearchResponse(recommendations, request)
                   ELSE ForYouResponse(recommendations, request)
    /\ pc' = "RETURNED"
    /\ UNCHANGED <<issued, conc_vars, mmr_locals, endpoint, request, has_qdrant, qdrant_fail, mongo, has_keywords,
                   keyword_pts, dense_pts, scroll_pts, products, heap, candidates,
                   search_results, retrieved, source, filtered_budget, after_budget,
                   filtered_prefs, after_prefs, filtered_payment, mmr_input, mmr_k,
                   mmr_results, reranked_results, ranked, final_results,
                   recommendations, exc>>

\* the except block starting the request over instead of returning
Handler_Retry ==
    /\ pc = "EXCEPT"
    /\ pc' = "start"
    /\ UNCHANGED <<issued, conc_vars, mmr_locals, endpoint, request, has_qdrant, qdrant_fail, mongo,
                   has_keywords, keyword_pts, dense_pts, scroll_pts, products, heap,
                   candidates, search_results, retrieved, source, filtered_budget,
                   after_budget, filtered_prefs, after_prefs, filtered_payment, mmr_input,
                   mmr_k, mmr_results, reranked_results, ranked, final_results,
                   recommendations, exc, response>>

\* except Exception as e: return {"error": str(e), "recommendations": [], ...}
Handler ==
    /\ pc = "EXCEPT"
    /\ response' = ErrorResponse(exc)
    /\ pc' = "RETURNED"
    /\ UNCHANGED <<issued, conc_vars, mmr_locals, endpoint, request, has_qdrant, qdrant_fail, mongo, has_keywords,
                   keyword_pts, dense_pts, scroll_pts, products, heap, candidates,
                   search_results, retrieved, source, filtered_budget, after_budget,
                   filtered_prefs, after_prefs, filtered_payment, mmr_input, mmr_k,
                   mmr_results, reranked_results, ranked, final_results,
                   recommendations, exc>>

Next ==
    \/ Unavailable
    \/ RetrieveSearch
    \/ RetrieveForYou
    \/ FilterSearch
    \/ FilterForYou
    \/ Diversify
    \/ Rerank
    \/ Assemble
    \/ Respond
    \/ Handler

Spec == Init /\ [][Next]_vars

----------------------------------------------------------------------------
(* Properties of the constraint filter *)

\* the constraint filter of user_search has run and its locals are still live
FilterDone ==
    /\ endpoint = "search"
    /\ pc \in {"FILTERED", "DIVERSIFIED", "RERANKED", "ASSEMBLED"}

SatBudget(r) == request.budgetKeys = {} \/ BudgetOk(heap[r], request)
SatPrefs(r) == PrefsOk(heap[r], request)
SatPayment(r) ==
    \/ request.preferredPaymentMethod = ""
    \/ request.preferredPaymentMethod \in heap[r].payment_methods

\* `after` is the satisfying subsequence of `before`, or `before` when that is empty
FallbackStep(before, after, Sat(_)) ==
    LET sub == SelectSeq(before, Sat)
    IN  after = IF sub # << >> THEN sub ELSE before

\* C1: each of the budget, preferences and payment predicates is applied to
\* the working set left by the previous one; a non-empty satisfying subset
\* replaces the working set (order kept), an empty one leaves it as it was.
\* With budget {min:0,max:0} and every price above 0 the budget step changes
\* nothing.
C1_FilterFallback ==
    FilterDone =>
        /\ FallbackStep(retrieved, after_budget, SatBudget)
        /\ FallbackStep(after_budget, after_prefs, SatPrefs)
        /\ FallbackStep(after_prefs, candidates, SatPayment)
        /\ (/\ request.budgetKeys = {"min", "max"}
            /\ request.budgetMin = 0
            /\ request.budgetMax = 0
            /\ \A i \in 1..Len(retrieved) : heap[retrieved[i]].price > 0)
           => after_budget = retrieved

\* a zero budget fell back, then the category preference removed a candidate
\* that the budget step had kept
C1_Witness ==
    /\ FilterDone
    /\ request.budgetKeys = {"min", "max"}
    /\ request.budgetMax = 0
    /\ retrieved # << >>
    /\ filtered_budget = << >>
    /\ after_budget = retrieved
    /\ filtered_prefs # << >>
    /\ Len(after_prefs) < Len(after_budget)

\* C2: a non-empty candidate list entering the constraint filter leaves it
\* non-empty; the output is empty only when the input was.
C2_FilterNonEmpty ==
    FilterDone => (candidates = << >> <=> retrieved = << >>)

\* the payment predicate matched no candidate of a non-empty working set
C2_Witness ==
    /\ FilterDone
    /\ retrieved # << >>
    /\ request.preferredPaymentMethod # ""
    /\ filtered_payment = << >>
    /\ candidates # << >>

----------------------------------------------------------------------------
(* Properties of the diversifier *)

\* apply_mmr was called in this invocation
DiversifierCalled ==
    /\ mmr_input # << >>
    /\ \/ pc \in {"DIVERSIFIED", "RERANKED", "ASSEMBLED"}
       \/ pc = "EXCEPT" /\ exc = "final_score"

\* apply_mmr returned a list in this invocation
DiversifierReturned ==
    /\ mmr_input # << >>
    /\ pc \in {"DIVERSIFIED", "RERANKED", "ASSEMBLED"}

\* C3: for a list of length n and k >= 1 the diversifier returns exactly
\* min(k, n) candidates, and the input unchanged when n <= k.
C3_DiversifierLength ==
    (DiversifierCalled /\ mmr_k >= 1) =>
        /\ DiversifierReturned
        /\ Len(mmr_results) = Min(mmr_k, Len(mmr_input))
        /\ Len(mmr_input) <= mmr_k => mmr_results = mmr_input

MaxSemantic(s) ==
    CHOOSE m \in {heap[s[i]].semantic_score : i \in 1..Len(s)} :
        \A i \in 1..Len(s) : heap[s[i]].semantic_score <= m

----------------------------------------------------------------------------
(* Properties of the reranker *)

RerankDone == pc \in {"RERANKED", "ASSEMBLED"}

\* C5: every candidate leaving the reranker has
\* 1000*final_score = 1000*semantic_score + 100*rate + review_count,
\* in user_search and in recommendations_for_you.
C5_RerankFormula ==
    RerankDone =>
        \A i \in 1..Len(reranked_results) :
            LET c == heap[reranked_results[i]]
            IN  c.final_score = c.semantic_score + 100 * c.rate + c.review_count

\* the for-you reranker scored a candidate with a rating and reviews
C5_Witness ==
    /\ RerankDone
    /\ endpoint = "foryou"
    /\ \E i \in 1..Len(reranked_results) :
           /\ heap[reranked_results[i]].rate > 0
           /\ heap[reranked_results[i]].review_count > 0

PositionIn(s, o) == CHOOSE i \in 1..Len(s) : s[i] = o

\* C6: the sorted list is a permutation of the reranker's input in
\* non-increasing final_score, equal scores keep their input order, and the
\* assembler receives its first top_k elements.
C6_RerankOrder ==
    RerankDone =>
        /\ Len(ranked) = Len(reranked_results)
        /\ Range(ranked) = Range(reranked_results)
        /\ \A i \in 1..Len(ranked) : \A j \in (i + 1)..Len(ranked) :
               /\ heap[ranked[i]].final_score >= heap[ranked[j]].final_score
               /\ heap[ranked[i]].final_score = heap[ranked[j]].final_score
                    => PositionIn(reranked_results, ranked[i])
                           < PositionIn(reranked_results, ranked[j])
        /\ final_results = SubSeq(ranked, 1, Min(request.top_k, Len(ranked)))

\* the sort moved a candidate forward, two candidates tie, and top_k cut the list
C6_Witness ==
    /\ RerankDone
    /\ ranked # reranked_results
    /\ \E i \in 1..Len(ranked) : \E j \in (i + 1)..Len(ranked) :
           heap[ranked[i]].final_score = heap[ranked[j]].final_score
    /\ Len(final_results) < Len(ranked)
    /\ final_results # << >>

----------------------------------------------------------------------------
(* Properties of the assembler *)

\* the id is non-empty and the repository holds a record for it
Resolvable(r) ==
    /\ heap[r].product_id # ""
    /\ mongo \in {"ok", "flaky"}
    /\ ~LookupRaises(mongo, heap[r].product_id)
    /\ \E d \in Range(products) : d.product_id = heap[r].product_id

\* C7: an unresolvable candidate consumes no slot: the number of results is
\* min(top_k, number of resolvable candidates of the whole ranked list).
C7_AssemblerSlots ==
    (pc = "ASSEMBLED" /\ request.top_k >= 1) =>
        Len(recommendations)
            = Min(request.top_k, Cardinality({i \in 1..Len(ranked) : Resolvable(ranked[i])}))

\* C8: the recommendations are exactly the resolvable candidates handed to
\* the assembler, in their ranked order, each with its candidate's
\* final_score; nothing with an empty or unresolvable id is emitted.
C8_AssemblerMembership ==
    pc = "ASSEMBLED" =>
        LET kept == SelectSeq(final_results, Resolvable)
        IN  /\ Len(recommendations) = Len(kept)
            /\ \A i \in 1..Len(kept) :
                   /\ recommendations[i].id = heap[kept[i]].product_id
                   /\ recommendations[i].score = heap[kept[i]].final_score
            /\ \A i \in 1..Len(recommendations) :
                   /\ recommendations[i].id # ""
                   /\ \E d \in Range(products) : d.product_id = recommendations[i].id

\* a candidate was skipped and a later one was emitted
C8_Witness ==
    /\ pc = "ASSEMBLED"
    /\ Len(final_results) >= 2
    /\ ~Resolvable(final_results[1])
    /\ heap[final_results[1]].product_id # ""
    /\ recommendations # << >>

----------------------------------------------------------------------------
(* Error handling *)

Stages == {"RETRIEVED", "FILTERED", "DIVERSIFIED", "RERANKED", "ASSEMBLED"}

\* the output of the stage the handler has just completed is empty
EmptyAt(p, sr, cs, mr, fr, recs) ==
    \/ p = "RETRIEVED" /\ sr = << >>
    \/ p = "FILTERED" /\ cs = << >>
    \/ p = "DIVERSIFIED" /\ mr = << >>
    \/ p = "RERANKED" /\ fr = << >>
    \/ p = "ASSEMBLED" /\ recs = << >>

\* C9: once a stage has produced an empty list, the next stage does not
\* raise, produces an empty list too, and the response that follows has an
\* empty recommendations list and no error.
C9_EmptyPropagates ==
    [][EmptyAt(pc, search_results, candidates, mmr_results,
               final_results, recommendations)
        => /\ pc' # "EXCEPT"
           /\ pc' \in Stages =>
                  EmptyAt(pc', search_results', candidates', mmr_results',
                          final_results', recommendations')
           /\ pc' = "RETURNED" =>
                  response'.error = "" /\ response'.recommendations = << >>]_vars

\* user_search ran to its return on an empty retrieval
C9_Witness ==
    /\ pc = "RETURNED"
    /\ endpoint = "search"
    /\ has_qdrant
    /\ exc = ""
    /\ search_results = << >>
    /\ response.error = ""
    /\ response.recommendations = << >>

\* C10: when the vector index or the record repository is unreachable or not
\* configured, the response to a request (top_k positive) has an empty
\* recommendations list and an error indicator.
C10_UpstreamUnavailable ==
    (/\ pc = "RETURNED"
     /\ request.top_k >= 1
     /\ \/ ~has_qdrant
        \/ qdrant_fail = {"keyword", "dense", "scroll"}
        \/ mongo = "none")
    => /\ response.error # ""
       /\ response.recommendations = << >>

----------------------------------------------------------------------------
(* Properties of the response flags *)

\* user_search returned its normal body for a non-empty retrieval
SearchAnswered ==
    /\ endpoint = "search"
    /\ pc = "RETURNED"
    /\ response.error = ""
    /\ retrieved # << >>

\* C11: a flag of personalization_applied is true only if its predicate was
\* applied to the working set and not skipped by the fallback rule.
C11_FlagsReportEffect ==
    SearchAnswered =>
        LET flags == response.personalization_applied
        IN  /\ flags.budget_filtered => filtered_budget # << >>
            /\ flags.category_filtered => filtered_prefs # << >>
            /\ flags.brand_filtered => filtered_prefs # << >>
            /\ flags.material_filtered => filtered_prefs # << >>
            /\ flags.payment_method_matched => filtered_payment # << >>

----------------------------------------------------------------------------
(* apply_mmr called on its own, one loop iteration per step *)

\* a result dict that carries the fields apply_mmr reads
MmrCand(category, score) ==
    [CandidateOf(Pt("p1", 0, 0, 0, 10, category, "", "", {})) EXCEPT !.final_score = score]

\* dicts with and without a "final_score" key
MmrCands == {MmrCand(category, score) : category \in {"A", "B"}, score \in {NoScore, 500, 900}}

Lambdas == {0, LambdaParam, 1000}

\* categories [A,A,B,B,C] with scores [0.9,0.85,0.8,0.75,0.5]
WorkedExample ==
    <<MmrCand("A", 900), MmrCand("A", 850), MmrCand("B", 800), MmrCand("B", 750),
      MmrCand("C", 500)>>

\* the state at the call apply_mmr(results, lam, k)
MmrScenario(results, lam, k) ==
    /\ endpoint = "search"
    /\ request = Req({}, 0, 0, {}, {}, {}, "", 1)
    /\ has_qdrant = TRUE
    /\ qdrant_fail = {}
    /\ mongo = "ok"
    /\ has_keywords = TRUE
    /\ keyword_pts = << >>
    /\ dense_pts = << >>
    /\ scroll_pts = << >>
    /\ products = << >>
    /\ pc = "MMR_CALL"
    /\ heap = results
    /\ candidates = << >>
    /\ search_results = << >>
    /\ retrieved = << >>
    /\ source = "none"
    /\ filtered_budget = << >>
    /\ after_budget = << >>
    /\ filtered_prefs = << >>
    /\ after_prefs = << >>
    /\ filtered_payment = << >>
    /\ mmr_input = Refs(results)
    /\ mmr_k = k
    /\ mmr_results = << >>
    /\ reranked_results = << >>
    /\ ranked = << >>
    /\ final_results = << >>
    /\ recommendations = << >>
    /\ exc = ""
    /\ response = ErrorResponse("")
    /\ lambda_param = lam
    /\ mmr_selected = << >>
    /\ mmr_remaining = << >>
    /\ shared_heap = << >>
    /\ invocations = << >>
    /\ issued = << >>

InitMMR ==
    \/ \E results \in SeqsUpTo(MmrCands, MaxN), lam \in Lambdas, k \in 0..MaxN :
           MmrScenario(results, lam, k)
    \/ MmrScenario(WorkedExample, LambdaParam, 3)

pipeline_vars ==
    <<endpoint, request, has_qdrant, qdrant_fail, mongo, has_keywords, keyword_pts,
      dense_pts, scroll_pts, products, heap, candidates, search_results, retrieved,
      source, filtered_budget, after_budget, filtered_prefs, after_prefs,
      filtered_payment, mmr_input, mmr_k, reranked_results, ranked, final_results,
      recommendations, response, lambda_param, conc_vars, issued>>

\* if len(results) <= k: return results; else copy the list and pop the seed
MmrCall ==
    /\ pc = "MMR_CALL"
    /\ IF Len(mmr_input) <= mmr_k
       THEN /\ mmr_results' = mmr_input
            /\ pc' = "MMR_RETURNED"
            /\ UNCHANGED <<mmr_selected, mmr_remaining>>
       ELSE /\ mmr_selected' = <<mmr_input[1]>>
            /\ mmr_remaining' = Tail(mmr_input)
            /\ pc' = "MMR_LOOP"
            /\ UNCHANGED mmr_results
    /\ UNCHANGED <<pipeline_vars, exc>>

\* one iteration of the while loop
MmrStep ==
    /\ pc = "MMR_LOOP"
    /\ Len(mmr_selected) < mmr_k
    /\ mmr_remaining # << >>
    /\ IF \E i \in 1..Len(mmr_remaining) : heap[mmr_remaining[i]].final_score = NoScore
       THEN /\ pc' = "MMR_RAISED"
            /\ exc' = "final_score"
            /\ UNCHANGED <<mmr_selected, mmr_remaining>>
       ELSE LET best == mmr_remaining[BestIndex(mmr_remaining, mmr_selected,
                                                lambda_param, heap)]
            IN  /\ mmr_selected' = Append(mmr_selected, best)
                /\ mmr_remaining' = RemoveFirstEqual(mmr_remaining, best, heap)
                /\ UNCHANGED <<pc, exc>>
    /\ UNCHANGED <<pipeline_vars, mmr_results>>

\* the loop condition fails: return selected
MmrReturn ==
    /\ pc = "MMR_LOOP"
    /\ ~(Len(mmr_selected) < mmr_k /\ mmr_remaining # << >>)
    /\ mmr_results' = mmr_selected
    /\ pc' = "MMR_RETURNED"
    /\ UNCHANGED <<pipeline_vars, exc, mmr_selected, mmr_remaining>>

NextMMR ==
    \/ MmrCall
    \/ MmrStep
    \/ MmrReturn

SpecMMR == InitMMR /\ [][NextMMR]_vars

\* the stepwise call and the one-shot operator compute the same thing
MmrStepwiseAgrees ==
    LET r == apply_mmr(mmr_input, lambda_param, mmr_k, heap)
    IN  /\ pc = "MMR_RETURNED" => ~r.raised /\ r.value = mmr_results
        /\ pc = "MMR_RAISED" => r.raised

----------------------------------------------------------------------------
(* Properties of apply_mmr as a function *)

\* every dict of the input list has a "final_score"
MmrAllScored == \A i \in 1..Len(mmr_input) : heap[mmr_input[i]].final_score # NoScore

\* the input list is in descending order of final_score
MmrInputSorted ==
    \A i \in 1..(Len(mmr_input) - 1) :
        heap[mmr_input[i]].final_score >= heap[mmr_input[i + 1]].final_score

MmrEnded == pc \in {"MMR_RETURNED", "MMR_RAISED"}

\* C12: with lambda = 1, a scored list in descending score order and
\* 1 <= k < len(list), apply_mmr returns the first k items of the list in
\* input order, whatever the categories.
C12_PureRelevance ==
    (/\ MmrEnded
     /\ lambda_param = 1000
     /\ MmrAllScored
     /\ MmrInputSorted
     /\ 1 <= mmr_k
     /\ mmr_k < Len(mmr_input)) =>
        /\ pc = "MMR_RETURNED"
        /\ mmr_results = SubSeq(mmr_input, 1, mmr_k)

\* lambda = 1, k = 2 of three: the second item ties with the seed in score but
\* has another category than the seed, the third has the seed's category
C12_Witness ==
    /\ pc = "MMR_RETURNED"
    /\ lambda_param = 1000
    /\ MmrAllScored
    /\ MmrInputSorted
    /\ mmr_k = 2
    /\ Len(mmr_input) = 3
    /\ heap[mmr_input[2]].category # heap[mmr_input[1]].category
    /\ heap[mmr_input[3]].category = heap[mmr_input[1]].category
    /\ mmr_results = SubSeq(mmr_input, 1, 2)

\* the number of items of sel whose category is that of candidate c
SharedWith(c, sel) ==
    Cardinality({i \in 1..Len(sel) : heap[sel[i]].category = heap[c].category})

\* the loop has appended at least one item after the seed
MmrSelectionMade ==
    /\ pc \in {"MMR_LOOP", "MMR_RETURNED"}
    /\ Len(mmr_selected) >= 2

\* C13: with lambda < 1, the item just selected does not share its category
\* with more of the earlier selections than a remaining item of equal score.
C13_DiversityRewarded ==
    (MmrSelectionMade /\ lambda_param < 1000) =>
        LET best == mmr_selected[Len(mmr_selected)]
            earlier == SubSeq(mmr_selected, 1, Len(mmr_selected) - 1)
        IN  \A i \in 1..Len(mmr_remaining) :
                heap[mmr_remaining[i]].final_score = heap[best].final_score =>
                    SharedWith(best, earlier) <= SharedWith(mmr_remaining[i], earlier)

\* the call apply_mmr(WorkedExample, 0.7, 3)
WorkedCall ==
    /\ heap = WorkedExample
    /\ lambda_param = LambdaParam
    /\ mmr_k = 3

C15_DiversifierEdges ==
    (MmrEnded /\ (mmr_input = << >> \/ mmr_k = 0)) =>
        /\ pc = "MMR_RETURNED"
        /\ mmr_results = << >>

----------------------------------------------------------------------------
(* Rerank applied to its own output *)

\* scoring then sorting list out leaves the scores and the order as they are
RerankFixes(out) ==
    LET h == Rescore(heap, out)
    IN  /\ h = heap
        /\ SortedDesc(out, h) = out

\* C16: reranking the output of the reranker (the sorted list, and its top_k
\* prefix) gives the same candidates in the same order with the same
\* final_score values.
C16_RerankIdempotent ==
    RerankDone => RerankFixes(ranked) /\ RerankFixes(final_results)

\* the reranker reordered its input, two outputs tie, one has a rating
C16_Witness ==
    /\ RerankDone
    /\ Len(ranked) >= 3
    /\ ranked # reranked_results
    /\ \E i \in 1..Len(ranked) : \E j \in (i + 1)..Len(ranked) :
           heap[ranked[i]].final_score = heap[ranked[j]].final_score
    /\ \E i \in 1..Len(final_results) : heap[final_results[i]].rate > 0

----------------------------------------------------------------------------
(* Availability *)

\* ids of the retrieved points whose payload says availability = false
UnavailableIds ==
    {search_results[i].product_id :
        i \in {j \in 1..Len(search_results) : ~search_results[j].availability}}

SomeAvailable == \E i \in 1..Len(search_results) : search_results[i].availability

\* C17: when at least one retrieved candidate is available, no unavailable
\* candidate is handed to the diversifier or appears in the recommendations.
C17_AvailabilityFirst ==
    (SomeAvailable /\ pc \in {"DIVERSIFIED", "RERANKED", "ASSEMBLED", "RETURNED"}) =>
        /\ \A i \in 1..Len(mmr_input) : heap[mmr_input[i]].product_id \notin UnavailableIds
        /\ \A i \in 1..Len(recommendations) : recommendations[i].id \notin UnavailableIds

----------------------------------------------------------------------------
(* The preferences predicate of user_search *)

\* membership in every non-empty preference set, for every attribute value
StrictMember(r) ==
    /\ request.categories # {} => heap[r].category \in request.categories
    /\ request.brands # {} => heap[r].brand \in request.brands
    /\ request.materials # {} => heap[r].material \in request.materials

\* membership for the category; membership or an empty string for brand and material
MemberOrUnknown(r) ==
    /\ request.categories # {} => heap[r].category \in request.categories
    /\ request.brands # {} => heap[r].brand \in request.brands \union {""}
    /\ request.materials # {} => heap[r].material \in request.materials \union {""}

\* C18: the candidates that satisfy the preferences predicate are exactly
\* those whose category, brand and material are members of the respective
\* non-empty preference sets, the empty string being treated like any value.
C18_PrefsStrict ==
    FilterDone => filtered_prefs = SelectSeq(after_budget, StrictMember)

\* C18 amended: the category must be a member of a non-empty category set
\* (an empty category is not); a brand or material passes when it is a member
\* of the non-empty set or is the empty string.
C18_PrefsMemberOrUnknown ==
    FilterDone => filtered_prefs = SelectSeq(after_budget, MemberOrUnknown)

\* a brand and a category preference: an unbranded candidate was kept, a
\* candidate of unknown category and one of another brand were dropped
C18_Witness ==
    /\ FilterDone
    /\ request.categories # {}
    /\ request.brands # {}
    /\ \E i \in 1..Len(filtered_prefs) : heap[filtered_prefs[i]].brand = ""
    /\ \E i \in 1..Len(after_budget) :
           /\ heap[after_budget[i]].category = ""
           /\ after_budget[i] \notin Range(filtered_prefs)
    /\ \E i \in 1..Len(after_budget) :
           /\ heap[after_budget[i]].category \in request.categories
           /\ heap[after_budget[i]].brand \notin request.brands \union {""}
           /\ after_budget[i] \notin Range(filtered_prefs)

----------------------------------------------------------------------------
(* user_search as a function of the request, from the retrieved candidates on *)

\* the candidate dicts as retrieval built them, before any scoring
Unscored(h) == [o \in DOMAIN h |-> [h[o] EXCEPT !.final_score = NoScore]]

\* the error and the recommendations user_search answers for request req
SearchOutcome(req, cands, h, docs, mg) ==
    LET ab == Relax(FilterBudget(cands, req, h), cands)
        ap == Relax(FilterPrefs(ab, req, h), ab)
        fin == Relax(FilterPayment(ap, req, h), ap)
        mmr == IF fin # << >>
               THEN apply_mmr(fin, LambdaParam, Min(req.top_k * 2, Len(fin)), h)
               ELSE [raised |-> FALSE, value |-> << >>]
        src == IF mmr.value = << >> THEN fin ELSE mmr.value
        h2 == Rescore(h, src)
        top == Prefix(SortedDesc(src, h2), req.top_k)
        down == \E i \in 1..Len(top) :
                    /\ h2[top[i]].product_id # ""
                    /\ LookupRaises(mg, h2[top[i]].product_id)
    IN  IF mmr.raised THEN [error |-> "final_score", recommendations |-> << >>]
        ELSE IF down THEN [error |-> "lookup", recommendations |-> << >>]
        ELSE [error |-> "",
              recommendations |-> AssembleLoop(top, docs, mg \in {"ok", "flaky"}, h2)]

\* user_search answered from a non-empty retrieval, with the document store up
SearchServed ==
    /\ endpoint = "search"
    /\ pc = "RETURNED"
    /\ retrieved # << >>
    /\ mongo = "ok"

\* the malformed parts of the context: a negative bound, a preference set
\* none of whose values any retrieved candidate has
MalformedParts ==
    {part \in {"min", "max", "categories", "brands", "materials"} :
        \/ part = "min" /\ "min" \in request.budgetKeys /\ request.budgetMin < 0
        \/ part = "max" /\ "max" \in request.budgetKeys /\ request.budgetMax < 0
        \/ /\ part = "categories" /\ request.categories # {}
           /\ \A i \in 1..Len(retrieved) :
                  heap[retrieved[i]].category \notin request.categories
        \/ /\ part = "brands" /\ request.brands # {}
           /\ \A i \in 1..Len(retrieved) : heap[retrieved[i]].brand \notin request.brands
        \/ /\ part = "materials" /\ request.materials # {}
           /\ \A i \in 1..Len(retrieved) :
                  heap[retrieved[i]].material \notin request.materials}

\* the request with one part of its context taken out
Without(req, part) ==
    IF part \in {"min", "max"} THEN [req EXCEPT !.budgetKeys = @ \ {part}]
    ELSE IF part = "categories" THEN [req EXCEPT !.categories = {}]
    ELSE IF part = "brands" THEN [req EXCEPT !.brands = {}]
    ELSE [req EXCEPT !.materials = {}]

Normalised(req) ==
    LET lo == IF "min" \in req.budgetKeys /\ req.budgetMin >= 0 THEN req.budgetMin ELSE 0
        hi == IF "max" \in req.budgetKeys THEN req.budgetMax ELSE 1000 * 1000
        within == SelectSeq(retrieved,
                            LAMBDA r : lo <= heap[r].price /\ heap[r].price <= hi)
        keeps == req.budgetKeys # {} /\ within # << >>
        r1 == IF keeps
              THEN [req EXCEPT !.budgetKeys = {"min", "max"},
                               !.budgetMin = lo, !.budgetMax = hi]
              ELSE [req EXCEPT !.budgetKeys = {}]
        left == IF keeps THEN within ELSE retrieved
    IN  IF SelectSeq(left, MemberOrUnknown) = << >>
        THEN [r1 EXCEPT !.categories = {}, !.brands = {}, !.materials = {}]
        ELSE r1

----------------------------------------------------------------------------
(* Product ids *)

\* no product id occurs twice among the candidates of list s
DistinctIds(s) ==
    \A i \in 1..Len(s) : \A j \in (i + 1)..Len(s) :
        heap[s[i]].product_id # heap[s[j]].product_id

\* C20: the candidates leaving retrieval hold each product id at most once,
\* and so do the ranked list and the recommendations.
C20_UniqueIds ==
    /\ pc \in {"RETRIEVED", "FILTERED", "DIVERSIFIED", "RERANKED", "ASSEMBLED"} =>
           DistinctIds(retrieved)
    /\ pc \in {"RERANKED", "ASSEMBLED"} => DistinctIds(ranked)
    /\ \A i \in 1..Len(recommendations) : \A j \in (i + 1)..Len(recommendations) :
           recommendations[i].id # recommendations[j].id

----------------------------------------------------------------------------
(* A lookup that fails during assembly *)

\* the invocation ended after a record lookup raised
LookupFailed ==
    /\ pc = "RETURNED"
    /\ exc = "lookup"

\* C21: when the lookup of one ranked candidate fails, that candidate alone
\* is skipped: the response carries no error and holds every other ranked
\* candidate whose lookup succeeds.
C21_LookupFailureSkipped ==
    LookupFailed =>
        /\ response.error = ""
        /\ \A i \in 1..Len(final_results) :
               LET id == heap[final_results[i]].product_id
               IN  (id # "" /\ ~LookupRaises(mongo, id) /\ Resolves(id, products)) =>
                       \E j \in 1..Len(response.recommendations) :
                           response.recommendations[j].id = id

----------------------------------------------------------------------------
(* Several user_search invocations in flight in one process.  The handlers *)
(* are coroutines without an await, so the event loop runs each to its     *)
(* return; the interleaving below, stage by stage, contains those runs.    *)

Invocations == {1, 2}

\* requests that differ in top_k and in the budget
ConcRequests ==
    {Req(keys, 0, 20, {}, {}, {}, "", k) : keys \in {{}, {"max"}}, k \in 1..MaxTopK}

\* the dicts a cached result list would hand to every invocation
Allocate_Cached(h, pts) ==
    IF h # << >> THEN [heap |-> h, refs |-> Refs(pts)]
    ELSE [heap |-> [j \in 1..Len(pts) |-> CandidateOf(pts[j])], refs |-> Refs(pts)]

\* candidates.append({...}): new dict objects for every invocation
Allocate(h, pts) ==
    [heap |-> h \o [j \in 1..Len(pts) |-> CandidateOf(pts[j])],
     refs |-> [j \in 1..Len(pts) |-> Len(h) + j]]

\* the locals of an invocation that has not started
Fresh(req) ==
    [request |-> req, pc |-> "start", owned |-> {}, candidates |-> << >>,
     mmr_results |-> << >>, final_results |-> << >>, response |-> ErrorResponse("")]

InitConc ==
    \E hits \in RankedHits(CtxPoints), reqs \in [Invocations -> ConcRequests] :
        /\ endpoint = "search"
        /\ request = Req({}, 0, 0, {}, {}, {}, "", 1)
        /\ has_qdrant = TRUE
        /\ qdrant_fail = {}
        /\ mongo = "ok"
        /\ has_keywords = TRUE
        /\ keyword_pts = hits
        /\ dense_pts = << >>
        /\ scroll_pts = << >>
        /\ products = AllDocs
        /\ pc = "serving"
        /\ heap = << >>
        /\ candidates = << >>
        /\ search_results = << >>
        /\ retrieved = << >>
        /\ source = "none"
        /\ filtered_budget = << >>
        /\ after_budget = << >>
        /\ filtered_prefs = << >>
        /\ after_prefs = << >>
        /\ filtered_payment = << >>
        /\ mmr_input = << >>
        /\ mmr_k = 0
        /\ mmr_results = << >>
        /\ reranked_results = << >>
        /\ ranked = << >>
        /\ final_results = << >>
        /\ recommendations = << >>
        /\ exc = ""
        /\ response = ErrorResponse("")
        /\ lambda_param = LambdaParam
        /\ mmr_selected = << >>
        /\ mmr_remaining = << >>
        /\ issued = << >>
        /\ shared_heap = << >>
        /\ invocations = [i \in Invocations |-> Fresh(reqs[i])]

single_vars ==
    <<endpoint, request, has_qdrant, qdrant_fail, mongo, has_keywords, keyword_pts,
      dense_pts, scroll_pts, products, pc, heap, candidates, search_results, retrieved,
      source, filtered_budget, after_budget, filtered_prefs, after_prefs,
      filtered_payment, mmr_input, mmr_k, mmr_results, reranked_results, ranked,
      final_results, recommendations, exc, response, mmr_locals, issued>>

\* invocation i: the keyword query and the loop that builds `candidates`
ConcRetrieve(i) ==
    /\ invocations[i].pc = "start"
    /\ LET a == Allocate(shared_heap, keyword_pts)
       IN  /\ shared_heap' = a.heap
           /\ invocations' = [invocations EXCEPT ![i].candidates = a.refs,
                                                 ![i].owned = Range(a.refs),
                                                 ![i].pc = "RETRIEVED"]
    /\ UNCHANGED single_vars

\* invocation i: the three filters with relaxation
ConcFilter(i) ==
    /\ invocations[i].pc = "RETRIEVED"
    /\ LET me == invocations[i]
           ab == Relax(FilterBudget(me.candidates, me.request, shared_heap), me.candidates)
           ap == Relax(FilterPrefs(ab, me.request, shared_heap), ab)
           fin == Relax(FilterPayment(ap, me.request, shared_heap), ap)
       IN  invocations' = [invocations EXCEPT ![i].candidates = fin, ![i].pc = "FILTERED"]
    /\ UNCHANGED <<single_vars, shared_heap>>

\* invocation i: apply_mmr; a KeyError goes to the except block, which returns
ConcDiversify(i) ==
    /\ invocations[i].pc = "FILTERED"
    /\ LET me == invocations[i]
           r == IF me.candidates # << >>
                THEN apply_mmr(me.candidates, LambdaParam,
                               Min(me.request.top_k * 2, Len(me.candidates)), shared_heap)
                ELSE [raised |-> FALSE, value |-> << >>]
       IN  invocations' =
               IF r.raised
               THEN [invocations EXCEPT ![i].response = ErrorResponse("final_score"),
                                        ![i].pc = "RETURNED"]
               ELSE [invocations EXCEPT ![i].mmr_results = r.value,
                                        ![i].pc = "DIVERSIFIED"]
    /\ UNCHANGED <<single_vars, shared_heap>>

\* invocation i: the scoring loop writes final_score on the dicts, then the sort
ConcRerank(i) ==
    /\ invocations[i].pc = "DIVERSIFIED"
    /\ LET me == invocations[i]
           src == IF me.mmr_results = << >> THEN me.candidates ELSE me.mmr_results
           h == Rescore(shared_heap, src)
       IN  /\ shared_heap' = h
           /\ invocations' =
                  [invocations EXCEPT ![i].final_results =
                                          Prefix(SortedDesc(src, h), me.request.top_k),
                                      ![i].pc = "RERANKED"]
    /\ UNCHANGED single_vars

\* invocation i: the lookup loop and the return
ConcRespond(i) ==
    /\ invocations[i].pc = "RERANKED"
    /\ LET me == invocations[i]
           recs == AssembleLoop(me.final_results, products, TRUE, shared_heap)
       IN  invocations' =
               [invocations EXCEPT ![i].response = SearchResponse(recs, me.request),
                                   ![i].pc = "RETURNED"]
    /\ UNCHANGED <<single_vars, shared_heap>>

NextConc ==
    \/ \E i \in Invocations : ConcRetrieve(i)
    \/ \E i \in Invocations : ConcFilter(i)
    \/ \E i \in Invocations : ConcDiversify(i)
    \/ \E i \in Invocations : ConcRerank(i)
    \/ \E i \in Invocations : ConcRespond(i)

SpecConc == InitConc /\ [][NextConc]_vars

\* what user_search answers to req when it runs alone on the same contents
Alone(req) ==
    SearchOutcome(req, Refs(keyword_pts),
                  [j \in 1..Len(keyword_pts) |-> CandidateOf(keyword_pts[j])],
                  products, mongo)

\* the dicts the lists of invocation i refer to
Held(i) ==
    Range(invocations[i].candidates) \union Range(invocations[i].mmr_results)
        \union Range(invocations[i].final_results)

\* C22: whatever the interleaving, an invocation holds only dicts it created,
\* no other invocation has written them, and it answers what it would answer
\* when run alone on the same index and document store.
C22_RequestIsolation ==
    \A i \in DOMAIN invocations :
        LET me == invocations[i]
        IN  /\ Held(i) \subseteq me.owned
            /\ \A j \in DOMAIN invocations \ {i} : me.owned \cap invocations[j].owned = {}
            /\ me.pc \in {"RETRIEVED", "FILTERED", "DIVERSIFIED"} =>
                   \A o \in me.owned : shared_heap[o].final_score = NoScore
            /\ me.pc = "RETURNED" =>
                   /\ me.response.error = Alone(me.request).error
                   /\ me.response.recommendations = Alone(me.request).recommendations

\* one invocation has answered with recommendations while another, with a
\* different request, is between its diversifier and its reranker
C22_Witness ==
    /\ DOMAIN invocations = Invocations
    /\ invocations[1].pc = "RETURNED"
    /\ invocations[1].response.recommendations # << >>
    /\ invocations[2].pc = "DIVERSIFIED"
    /\ invocations[2].request # invocations[1].request
    /\ Len(invocations[2].mmr_results) >= 2

----------------------------------------------------------------------------
(* Order of the stages *)

\* position of a handler state in RETRIEVED < FILTERED < ... < ASSEMBLED
StageRank(p) ==
    CASE p = "start" -> 0
      [] p = "RETRIEVED" -> 1
      [] p = "FILTERED" -> 2
      [] p = "DIVERSIFIED" -> 3
      [] p = "RERANKED" -> 4
      [] p = "ASSEMBLED" -> 5
      [] OTHER -> 6

\* the handler moves to the next stage
Advances == StageRank(pc) < 5 /\ StageRank(pc') = StageRank(pc) + 1

\* the stage entered works on what the stage left behind it produced
Consumes ==
    /\ pc' = "DIVERSIFIED" => mmr_input' = candidates
    /\ pc' = "RERANKED" =>
           /\ Range(reranked_results') = Range(mmr_results)
           /\ Range(final_results') \subseteq Range(reranked_results')
    /\ pc' = "ASSEMBLED" =>
           \A i \in 1..Len(recommendations') :
               \E j \in 1..Len(final_results) :
                   heap[final_results[j]].product_id = recommendations'[i].id

\* C23: the stages run in the order RETRIEVED, FILTERED, DIVERSIFIED,
\* RERANKED, ASSEMBLED, one step forward at a time, each on the previous
\* stage's output, and the response is returned only from ASSEMBLED.
C23_StageOrder ==
    [][pc' # pc =>
          /\ \/ Advances
             \/ pc = "ASSEMBLED" /\ pc' = "RETURNED"
          /\ Consumes]_vars

\* C23 amended: a stage is entered only from the one before it and never
\* again; a response is returned from ASSEMBLED (without an error), or as
\* the error body with no recommendations: from the start when the service
\* is not available, or from the except block, entered from any stage
\* whose call raised.
C23_StageOrderOrError ==
    [][pc' # pc =>
          /\ \/ Advances
             \/ pc = "ASSEMBLED" /\ pc' = "RETURNED" /\ response'.error = ""
             \/ /\ pc = "start" /\ pc' = "RETURNED"
                /\ response'.error # "" /\ response'.recommendations = << >>
             \/ StageRank(pc) < 5 /\ pc' = "EXCEPT" /\ exc' # ""
             \/ /\ pc = "EXCEPT" /\ pc' = "RETURNED"
                /\ response'.error # "" /\ response'.recommendations = << >>
          /\ Consumes]_vars

\* retrieval and the filter ran, apply_mmr raised, the except block returned
C23_Witness ==
    /\ pc = "RETURNED"
    /\ exc = "final_score"
    /\ Len(mmr_input) = 3
    /\ response.error # ""

----------------------------------------------------------------------------
(* The selection step of apply_mmr *)

\* 10^6 * s * mmr(c) for s = Len(sel) items selected:
\* mmr(c) = lambda*score(c) - (1 - lambda)*(items of sel of another category)/s
StepMmr(c, sel) ==
    lambda_param * heap[c].final_score * Len(sel)
        - (1000 - lambda_param) * 1000
            * Cardinality({i \in 1..Len(sel) : heap[sel[i]].category # heap[c].category})

----------------------------------------------------------------------------
(* Frame of the stages *)

\* C25: after the diversifier and the reranker have run, every candidate
\* record of the filter's output list has the contents it had when the filter
\* produced it, when no record carried a final_score.
C25_NoInPlaceMutation ==
    RerankDone =>
        \A i \in 1..Len(candidates) : heap[candidates[i]].final_score = NoScore

----------------------------------------------------------------------------
(* Number of results end to end *)

\* user_search has answered a request with top_k >= 1 whose filtered
\* candidates all resolve in the document store
CountCase ==
    /\ endpoint = "search"
    /\ pc = "RETURNED"
    /\ has_qdrant
    /\ mongo = "ok"
    /\ exc # "retrieval"
    /\ request.top_k >= 1
    /\ \A i \in 1..Len(candidates) : Resolvable(candidates[i])

\* C26: such a request is answered without an error by exactly
\* min(top_k, n) recommendations, n being the number of filtered candidates.
C26_ResultCount ==
    CountCase =>
        /\ response.error = ""
        /\ Len(response.recommendations) = Min(request.top_k, Len(candidates))

----------------------------------------------------------------------------
(* final_score: written by the reranker, read by apply_mmr *)

\* the coming apply_mmr call enters its selection loop
LoopWillRun ==
    LET k == Min(request.top_k * 2, Len(candidates))
    IN  pc = "FILTERED" /\ Len(candidates) > k /\ k >= 2

\* C27: the candidates apply_mmr is about to score carry the final_score it
\* reads, and no invocation ends in the KeyError of a missing final_score,
\* in user_search and in recommendations_for_you.
C27_ScoreWrittenBeforeRead ==
    /\ LoopWillRun =>
           \A i \in 1..Len(candidates) : heap[candidates[i]].final_score # NoScore
    /\ exc # "final_score"

----------------------------------------------------------------------------
(* selected and remaining inside apply_mmr *)

\* the call went past the test len(results) <= k
PastShortcut ==
    /\ pc \in {"MMR_LOOP", "MMR_RETURNED", "MMR_RAISED"}
    /\ Len(mmr_input) > mmr_k

\* selected and remaining share no input position and together hold them all
Partitioned ==
    LET both == mmr_selected \o mmr_remaining
    IN  /\ Len(both) = Len(mmr_input)
        /\ Range(both) = Range(mmr_input)

\* the iterations so far: one per selected item after the seed
Iterations == Len(mmr_selected) - 1

\* C28: past the shortcut, selected and remaining partition the input
\* positions, an iteration moves exactly one candidate from remaining to
\* selected, there are at most k-1 iterations, and the output holds no
\* input position twice.
C28_MmrPartition ==
    [][/\ PastShortcut' =>
              /\ Partitioned'
              /\ Iterations' <= mmr_k - 1
              /\ pc' = "MMR_RETURNED" =>
                     Cardinality(Range(mmr_results')) = Len(mmr_results')
       /\ (pc = "MMR_LOOP" /\ pc' = "MMR_LOOP") =>
              \E i \in 1..Len(mmr_remaining) :
                  /\ mmr_selected' = Append(mmr_selected, mmr_remaining[i])
                  /\ mmr_remaining' = SubSeq(mmr_remaining, 1, i - 1)
                                          \o SubSeq(mmr_remaining, i + 1, Len(mmr_remaining))
      ]_vars

----------------------------------------------------------------------------
(* The filter of recommendations_for_you *)

\* the filtering loop of recommendations_for_you has run
ForYouFiltered ==
    /\ endpoint = "foryou"
    /\ pc \in {"FILTERED", "DIVERSIFIED"}

\* the price lies within the user's budget (0 and infinity when not stored)
InUserBudget(p) ==
    /\ ("min" \in request.budgetKeys => request.budgetMin <= p.price)
    /\ ("max" \in request.budgetKeys => p.price <= request.budgetMax)

\* the point lists no payment methods or lists the user's preferred one
ListsPreferred(p) ==
    p.payment_methods = {} \/ request.preferredPaymentMethod \in p.payment_methods

\* the dicts built from the points of search_results that satisfy Keep, in order
KeptDicts(Keep(_)) ==
    LET kept == SelectSeq(search_results, Keep)
    IN  [i \in 1..Len(kept) |-> ForYouCandidateOf(kept[i])]

\* the dicts handed to apply_mmr, in order
ReachingDiversifier == [i \in 1..Len(candidates) |-> heap[candidates[i]]]

\* C29: the candidates reaching the diversifier are exactly the search
\* results whose price is within the budget and which list no payment
\* methods or list the preferred one; the category excludes nothing and
\* no fallback brings an excluded candidate back.
C29_ForYouHardFilters ==
    ForYouFiltered =>
        ReachingDiversifier
            = KeptDicts(LAMBDA p : InUserBudget(p) /\ ListsPreferred(p))

\* C29 amended: the payment predicate also passes every point when the
\* user has no preferred payment method.
C29_ForYouHardFiltersOrNoMethod ==
    ForYouFiltered =>
        ReachingDiversifier
            = KeptDicts(LAMBDA p : /\ InUserBudget(p)
                                   /\ \/ request.preferredPaymentMethod = ""
                                      \/ ListsPreferred(p))

\* every search result was excluded, one within the budget by the payment
\* method alone, and the list handed on is empty
C29_Witness ==
    /\ ForYouFiltered
    /\ candidates = << >>
    /\ Len(search_results) >= 2
    /\ request.preferredPaymentMethod # ""
    /\ \E i \in 1..Len(search_results) :
           InUserBudget(search_results[i]) /\ ~ListsPreferred(search_results[i])
    /\ \E i \in 1..Len(search_results) : ~InUserBudget(search_results[i])

----------------------------------------------------------------------------
(* Order of the retrieval fallbacks of user_search *)

\* the retrieval step of user_search is over
SearchRetrieved ==
    /\ endpoint = "search"
    /\ pc \notin {"start", "serving", "MMR_CALL", "MMR_LOOP", "MMR_RETURNED", "MMR_RAISED"}
    /\ has_qdrant

\* what each call gave this invocation: nothing when it failed or was not made
KeywordGave == IF has_keywords /\ "keyword" \notin qdrant_fail THEN keyword_pts ELSE << >>
ScrollGave == IF "scroll" \notin qdrant_fail THEN scroll_pts ELSE << >>

WasIssued(call) == \E i \in 1..Len(issued) : issued[i] = call

\* C30: the dense query is issued only after a keyword query that gave no
\* candidates, the scroll only when the dense query gave none either, the
\* document-store scan only when the scroll gave none and the store is
\* configured; all candidates come from one source; scroll and document-store
\* candidates have semantic_score 0.
C30_RetrievalFallbackOrder ==
    SearchRetrieved =>
        /\ WasIssued("dense") => KeywordGave = << >>
        /\ WasIssued("scroll") =>
               /\ WasIssued("dense")
               /\ "dense" \notin qdrant_fail /\ dense_pts = << >>
        /\ WasIssued("mongo") =>
               /\ WasIssued("scroll")
               /\ ScrollGave = << >>
               /\ mongo # "none"
        /\ \A i \in 1..Len(issued) : \A j \in (i + 1)..Len(issued) :
               /\ issued[i] # issued[j]
               /\ issued[j] = "dense" => issued[i] = "keyword"
               /\ issued[j] = "scroll" => issued[i] \in {"keyword", "dense"}
        /\ retrieved # << >> =>
               /\ source \in {"keyword", "dense", "scroll", "mongo"}
               /\ search_results =
                      CASE source = "keyword" -> keyword_pts
                        [] source = "dense" -> dense_pts
                        [] source = "scroll" -> scroll_pts
                        [] source = "mongo" -> products
               /\ Len(retrieved) = Len(search_results)
               /\ WasIssued(source)
               /\ issued[Len(issued)] = source
        /\ source \in {"scroll", "mongo"} =>
               \A i \in 1..Len(retrieved) : heap[retrieved[i]].semantic_score = 0

\* keyword and dense gave nothing and the scroll supplied a scored point
C30_Witness ==
    /\ SearchRetrieved
    /\ pc = "RETRIEVED"
    /\ issued = <<"keyword", "dense", "scroll">>
    /\ source = "scroll"
    /\ retrieved # << >>
    /\ search_results[1].score > 0

====
